---- MODULE Spec2Model ----
(***************************************************************************)
(* Model of the dir_test attribute macro (src/macros/src/lib.rs): the      *)
(* argument parser (impl Parse for DirTestArg), path resolution            *)
(* (resolve_dir / resolve_path / resolve_component), glob discovery and    *)
(* test-name synthesis (TestBuilder::build / build_test / test_name).      *)
(*                                                                         *)
(* Strings are sequences of one-character strings, so that the character   *)
(* level operations of the code (starts_with('$'), replace of ASCII        *)
(* punctuation, file_stem, splitting a path into components) are computed  *)
(* and not assumed.  A Path / PathBuf is the sequence of its components,   *)
(* the root directory being the component "/".  Option values are          *)
(* sequences of length at most one.                                        *)
(***************************************************************************)
EXTENDS Naturals, Sequences, FiniteSets

\* Longest sequence of `key: value` entries handed to the parser in the
\* exhaustive parser inputs.
MaxEntries == 3

\* Depth of nested resolve_path calls the stack can hold; deeper recursion
\* is a stack overflow of the generating process.
StackDepth == 4

None == <<>>
Some(x) == <<x>>

Keywords ==
  { <<"a","s">>,
    <<"b","r","e","a","k">>,
    <<"c","o","n","s","t">>,
    <<"c","o","n","t","i","n","u","e">>,
    <<"c","r","a","t","e">>,
    <<"e","l","s","e">>,
    <<"e","n","u","m"," ">>,
    <<"e","x","t","e","r","n">>,
    <<"f","a","l","s","e">>,
    <<"f","n">>,
    <<"f","o","r">>,
    <<"i","f">>,
    <<"i","m","p","l">>,
    <<"i","n">>,
    <<"l","e","t">>,
    <<"l","o","o","p">>,
    <<"m","a","t","c","h">>,
    <<"m","o","d">>,
    <<"m","o","v","e">>,
    <<"m","u","t">>,
    <<"p","u","b">>,
    <<"r","e","f">>,
    <<"r","e","t","u","r","n">>,
    <<"s","e","l","f">>,
    <<"S","e","l","f">>,
    <<"s","t","a","t","i","c">>,
    <<"s","t","r","u","c","t">>,
    <<"s","u","p","e","r">>,
    <<"t","r","a","i","t">>,
    <<"t","r","u","e">>,
    <<"t","y","p","e">>,
    <<"u","n","s","a","f","e">>,
    <<"u","s","e">>,
    <<"w","h","e","r","e">>,
    <<"w","h","i","l","e">>,
    <<"a","s","y","n","c">>,
    <<"a","w","a","i","t">>,
    <<"d","y","n">>,
    <<"a","b","s","t","r","a","c","t">>,
    <<"b","e","c","o","m","e">>,
    <<"b","o","x">>,
    <<"d","o">>,
    <<"f","i","n","a","l">>,
    <<"m","a","c","r","o">>,
    <<"o","v","e","r","r","i","d","e">>,
    <<"p","r","i","v">>,
    <<"t","y","p","e","o","f">>,
    <<"u","n","s","i","z","e","d">>,
    <<"v","i","r","t","u","a","l">>,
    <<"y","i","e","l","d">>,
    <<"t","r","y">> }
Letters ==
  { "a", "b", "c", "d", "e", "f", "g", "h", "i", "j", "k", "l", "m", "n", "o", "p", "q", "r", "s", "t", "u", "v", "w", "x", "y", "z",
    "A", "B", "C", "D", "E", "F", "G", "H", "I", "J", "K", "L", "M", "N", "O", "P", "Q", "R", "S", "T", "U", "V", "W", "X", "Y", "Z" }
Digits == { "0", "1", "2", "3", "4", "5", "6", "7", "8", "9" }
AsciiPunctuation ==
  { "!", "\"", "#", "$", "%", "&", "'", "(", ")", "*", "+", ",", "-", ".", "/", ":", ";", "<", "=", ">", "?", "@", "[", "\\", "]", "^", "_", "{", "|", "}", "~" }

\* char::is_ascii_punctuation is true of the members of AsciiPunctuation and of
\* the grave accent, which occurs in no file name and no postfix used here.
\* The characters an identifier may start with and continue with.
IdentStart == Letters \cup {"_"}
IdentContinue == Letters \cup Digits \cup {"_"}

\* ------------------------------------------------------------------ paths

RECURSIVE SplitSlash(_, _, _)
\* The pieces of s between "/" separators, empty pieces dropped.
SplitSlash(s, cur, out) ==
  IF s = <<>> THEN (IF cur = <<>> THEN out ELSE Append(out, cur))
  ELSE IF Head(s) = "/"
       THEN SplitSlash(Tail(s), <<>>, IF cur = <<>> THEN out ELSE Append(out, cur))
       ELSE SplitSlash(Tail(s), Append(cur, Head(s)), out)

RECURSIVE DropCurDir(_, _)
\* Path::components skips "." except as the first component of a relative path.
DropCurDir(parts, first) ==
  IF parts = <<>> THEN <<>>
  ELSE IF Head(parts) = <<".">> /\ ~first
       THEN DropCurDir(Tail(parts), FALSE)
       ELSE <<Head(parts)>> \o DropCurDir(Tail(parts), FALSE)

\* Path::new(s).iter(): the components of the path written s.
Components(s) ==
  LET hasRoot == Len(s) > 0 /\ s[1] = "/"
      parts == SplitSlash(s, <<>>, <<>>)
  IN IF hasRoot THEN <<<<"/">>>> \o DropCurDir(parts, FALSE)
                ELSE DropCurDir(parts, TRUE)

\* Path::is_absolute (Unix): the path has a root.
IsAbsolute(p) == Len(p) > 0 /\ p[1] = <<"/">>

\* PathBuf::push: an absolute argument replaces the buffer, a relative one is appended.
Push(buf, p) == IF IsAbsolute(p) THEN p ELSE buf \o p

\* Path::strip_prefix: the rest of p after base, None when base is no prefix of p.
StripPrefix(p, base) ==
  IF Len(base) <= Len(p) /\ SubSeq(p, 1, Len(base)) = base
  THEN Some(SubSeq(p, Len(base) + 1, Len(p)))
  ELSE None

\* ------------------------------------------------------------ file system

\* The file system the generator runs against, in iteration order.  Relative
\* paths are those that exist relative to the working directory.
\*   /                      /fix/lock.txt (unreadable)   /empty/
\*   /fix/                  /fix/sub/                    /spc/
\*   /fix/foo.txt           /fix/sub/bar.txt             /spc/a b.txt
\*   /fix/a-b.txt           /fix/sub_bar.txt             rel/
\*   /fix/a_b.txt           /file.txt                    relf
\*   /fix/foo.rs            /fix/pipe.txt (a fifo)
FSList ==
  << [path |-> <<<<"/">>>>,                      kind |-> "dir",   readable |-> TRUE],
     [path |-> <<<<"/">>, <<"f","i","x">>>>,               kind |-> "dir",   readable |-> TRUE],
     [path |-> <<<<"/">>, <<"f","i","x">>, <<"f","o","o",".","t","x","t">>>>,    kind |-> "file",  readable |-> TRUE],
     [path |-> <<<<"/">>, <<"f","i","x">>, <<"a","-","b",".","t","x","t">>>>, kind |-> "file", readable |-> TRUE],
     [path |-> <<<<"/">>, <<"f","i","x">>, <<"a","_","b",".","t","x","t">>>>, kind |-> "file",  readable |-> TRUE],
     [path |-> <<<<"/">>, <<"f","i","x">>, <<"f","o","o",".","r","s">>>>,     kind |-> "file",  readable |-> TRUE],
     [path |-> <<<<"/">>, <<"f","i","x">>, <<"p","i","p","e",".","t","x","t">>>>,   kind |-> "other", readable |-> TRUE],
     [path |-> <<<<"/">>, <<"f","i","x">>, <<"l","o","c","k",".","t","x","t">>>>,   kind |-> "file",  readable |-> FALSE],
     [path |-> <<<<"/">>, <<"f","i","x">>, <<"s","u","b">>>>,        kind |-> "dir",   readable |-> TRUE],
     [path |-> <<<<"/">>, <<"f","i","x">>, <<"s","u","b">>, <<"b","a","r",".","t","x","t">>>>, kind |-> "file", readable |-> TRUE],
     [path |-> <<<<"/">>, <<"f","i","x">>, <<"s","u","b","_","b","a","r",".","t","x","t">>>>, kind |-> "file", readable |-> TRUE],
     [path |-> <<<<"/">>, <<"f","i","l","e",".","t","x","t">>>>,          kind |-> "file",  readable |-> TRUE],
     [path |-> <<<<"/">>, <<"e","m","p","t","y">>>>,             kind |-> "dir",   readable |-> TRUE],
     [path |-> <<<<"/">>, <<"s","p","c">>>>,               kind |-> "dir",   readable |-> TRUE],
     [path |-> <<<<"/">>, <<"s","p","c">>, <<"a"," ","b",".","t","x","t">>>>, kind |-> "file",  readable |-> TRUE],
     [path |-> <<<<"r","e","l">>>>,                       kind |-> "dir",   readable |-> TRUE],
     [path |-> <<<<"r","e","l","f">>>>,                      kind |-> "file",  readable |-> TRUE] >>

\* Path::exists, Path::is_dir, Path::is_file.
Exists(p) == \E i \in DOMAIN FSList : FSList[i].path = p
IsDir(p) == \E i \in DOMAIN FSList : FSList[i].path = p /\ FSList[i].kind = "dir"
IsFile(p) == \E i \in DOMAIN FSList : FSList[i].path = p /\ FSList[i].kind = "file"

\* ------------------------------------------------------------ environment

\* The process environments, functions from variable names to values:
\*   R=/fix  N=$R/sub  S=sub, and in Env2 also L=$L  M=$K/x  K=$M.
Env1 ==
  [n \in {<<"R">>, <<"N">>, <<"S">>} |->
     CASE n = <<"R">> -> <<"/","f","i","x">>
       [] n = <<"N">> -> <<"$","R","/","s","u","b">>
       [] n = <<"S">> -> <<"s","u","b">>]

Env2 ==
  [n \in {<<"R">>, <<"N">>, <<"S">>, <<"L">>, <<"M">>, <<"K">>} |->
     CASE n = <<"R">> -> <<"/","f","i","x">>
       [] n = <<"N">> -> <<"$","R","/","s","u","b">>
       [] n = <<"S">> -> <<"s","u","b">>
       [] n = <<"L">> -> <<"$","L">>
       [] n = <<"M">> -> <<"$","K","/","x">>
       [] n = <<"K">> -> <<"$","M">>]

Envs == {Env1, Env2}

\* ------------------------------------------------------- path resolution

ResolveOk(p) == [st |-> "ok", path |-> p, var |-> <<>>]
ResolveEnvErr(v) == [st |-> "env_err", path |-> <<>>, var |-> v]
ResolveOverflow == [st |-> "overflow", path |-> <<>>, var |-> <<>>]

RECURSIVE resolve_component(_, _, _)
RECURSIVE resolve_loop(_, _, _, _)

\* The for loop of resolve_path: each component is resolved and pushed on
\* `resolved`; the first failure is returned (the ? operator).
resolve_loop(e, path, resolved, fuel) ==
  IF path = <<>> THEN ResolveOk(resolved)
  ELSE LET r == resolve_component(e, Head(path), fuel)
       IN IF r.st # "ok" THEN r
          ELSE resolve_loop(e, Tail(path), Push(resolved, r.path), fuel)

resolve_path(e, path, fuel) == resolve_loop(e, path, <<>>, fuel)

\* A component starting with `$` names an environment variable whose value is
\* resolved as a path in turn; `fuel` is the stack left for that recursion.
resolve_component(e, component, fuel) ==
  IF Len(component) > 0 /\ component[1] = "$"
  THEN LET env_var == Tail(component)
       IN IF env_var \notin DOMAIN e THEN ResolveEnvErr(env_var)
          ELSE IF fuel = 0 THEN ResolveOverflow
          ELSE resolve_path(e, Components(e[env_var]), fuel - 1)
  ELSE ResolveOk(<<component>>)

NoErr == [kind |-> "none", arg |-> "", var |-> <<>>, path |-> <<>>]
Err(k) == [kind |-> k, arg |-> "", var |-> <<>>, path |-> <<>>]
ArgErr(k, a) == [kind |-> k, arg |-> a, var |-> <<>>, path |-> <<>>]
PathErr(k, p) == [kind |-> k, arg |-> "", var |-> <<>>, path |-> p]

\* dir_check with the existence and directory checks before the absolute one.
dir_check_exists_first(resolved) ==
  IF ~Exists(resolved) THEN "not_exist"
  ELSE IF ~IsDir(resolved) THEN "not_dir"
  ELSE IF ~IsAbsolute(resolved) THEN "not_absolute"
  ELSE "ok"

\* The checks of resolve_dir on the substituted path, in the order of the
\* code; "ok" when none fails.
dir_check(resolved) ==
  IF ~IsAbsolute(resolved) THEN "not_absolute"
  ELSE IF ~Exists(resolved) THEN "not_exist"
  ELSE IF ~IsDir(resolved) THEN "not_dir"
  ELSE "ok"

\* The result of resolve_dir for a substituted path p whose checks gave k.
dir_result(p, k) ==
  IF k # "ok" THEN [st |-> "err", path |-> p, err |-> PathErr(k, p)]
  ELSE [st |-> "ok", path |-> p, err |-> NoErr]

\* resolve_dir after resolve_path returned r: the ? on r, then the checks.
resolve_checked(r) ==
  IF r.st = "overflow" THEN [st |-> "overflow", path |-> <<>>, err |-> NoErr]
  ELSE IF r.st = "env_err"
  THEN [st |-> "err", path |-> <<>>,
        err |-> [kind |-> "env_var", arg |-> "", var |-> r.var, path |-> <<>>]]
  ELSE dir_result(r.path, dir_check(r.path))

\* resolve_dir falling back to a default directory when `dir` is not given.
resolve_dir_default(arg, e) ==
  resolve_checked(resolve_path(e,
     Components(IF arg.dir = None THEN <<"/","f","i","x">> ELSE arg.dir[1]), StackDepth))

\* resolve_dir: [st, path, err]; st is "ok", "err" (an Err is returned) or
\* "overflow" (the recursion of resolve_path exhausts the stack).
resolve_dir(arg, e) ==
  IF arg.dir = None
  THEN [st |-> "err", path |-> <<>>, err |-> Err("dir_required")]
  ELSE resolve_checked(resolve_path(e, Components(arg.dir[1]), StackDepth))

\* ------------------------------------------------------------------ glob

RECURSIVE WildMatch(_, _)
\* A pattern component against a file name: `*` matches any run of characters.
WildMatch(p, s) ==
  IF p = <<>> THEN s = <<>>
  ELSE IF Head(p) = "*"
       THEN WildMatch(Tail(p), s) \/ (s # <<>> /\ WildMatch(p, Tail(s)))
       ELSE s # <<>> /\ Head(p) = Head(s) /\ WildMatch(Tail(p), Tail(s))

RECURSIVE MatchComps(_, _)
\* A pattern against a path, component by component: `**` matches any number
\* of directories, every other component matches one name.
MatchComps(pat, path) ==
  IF pat = <<>> THEN path = <<>>
  ELSE IF Head(pat) = <<"*","*">>
       THEN MatchComps(Tail(pat), path) \/ (path # <<>> /\ MatchComps(pat, Tail(path)))
       ELSE path # <<>> /\ WildMatch(Head(pat), Head(path))
                        /\ MatchComps(Tail(pat), Tail(path))

\* A pattern compiles when each component is `**` alone or has no `**` in it.
ValidPattern(pat) ==
  \A i \in DOMAIN pat :
     pat[i] = <<"*","*">>
     \/ \A j \in 1..(Len(pat[i]) - 1) : ~(pat[i][j] = "*" /\ pat[i][j + 1] = "*")

RECURSIVE GlobItems(_, _)
\* The items glob's iterator yields from entry i on: Ok(path) for a matching
\* entry, Err for a matching entry that cannot be read.
GlobItems(pat, i) ==
  IF i > Len(FSList) THEN <<>>
  ELSE (IF MatchComps(pat, FSList[i].path)
        THEN <<[ok |-> FSList[i].readable, path |-> FSList[i].path]>>
        ELSE <<>>) \o GlobItems(pat, i + 1)

\* glob::glob(pattern): a pattern error, or the iterator's items.
glob(pat) ==
  IF ~ValidPattern(pat) THEN [st |-> "err", items |-> <<>>]
  ELSE [st |-> "ok", items |-> GlobItems(pat, 1)]

\* ------------------------------------------------------------ test names

RECURSIVE sanitize_keep_dash(_)
\* sanitize leaving `-` in place.
sanitize_keep_dash(s) ==
  IF s = <<>> THEN <<>>
  ELSE <<IF Head(s) \in AsciiPunctuation \ {"-"} THEN "_" ELSE Head(s)>>
       \o sanitize_keep_dash(Tail(s))

RECURSIVE sanitize(_)
\* s.replace(|c: char| c.is_ascii_punctuation(), "_")
sanitize(s) ==
  IF s = <<>> THEN <<>>
  ELSE <<IF Head(s) \in AsciiPunctuation THEN "_" ELSE Head(s)>> \o sanitize(Tail(s))

\* Path::file_stem of a file name: the name up to its last `.`, the whole name
\* when it has no `.` or only a leading one, None for `..`.
file_stem(name) ==
  IF name = <<".",".">> THEN None
  ELSE LET dots == {i \in 1..Len(name) : name[i] = "."}
           last == IF dots = {} THEN 0 ELSE CHOOSE i \in dots : \A j \in dots : j <= i
       IN IF last <= 1 THEN Some(name) ELSE Some(SubSeq(name, 1, last - 1))

is_keyword(name) == name \in Keywords

\* A legal Rust identifier (ASCII): syn::Ident::new panics on any other string.
ValidIdent(name) ==
  /\ Len(name) > 0
  /\ name[1] \in IdentStart
  /\ \A i \in 2..Len(name) : name[i] \in IdentContinue
  /\ name # <<"_">>

\* make_ident: a raw identifier for a keyword, a plain one otherwise.
make_ident(name) ==
  IF ~ValidIdent(name) THEN [st |-> "panic", raw |-> FALSE, name |-> name]
  ELSE [st |-> "ok", raw |-> is_keyword(name), name |-> name]

RECURSIVE push_components(_, _)
\* The loop over components[0..len-1]: each is sanitized and followed by `_`.
push_components(test_name, components) ==
  IF components = <<>> THEN test_name
  ELSE push_components(test_name \o sanitize(Head(components)) \o <<"_">>,
                       Tail(components))

\* The String test_name builds for a file at rel_path (relative to the base
\* directory): the function name, `__`, the sanitized directories each followed
\* by `_`, the sanitized file stem, and `_<postfix>` when a postfix is set.
test_name_string(test_func_name, rel_path, postfix) ==
  LET n == Len(rel_path)
      stem == file_stem(rel_path[n])[1]
      base == push_components(test_func_name \o <<"_","_">>, SubSeq(rel_path, 1, n - 1))
                \o sanitize(stem)
  IN IF postfix = None THEN base ELSE base \o <<"_">> \o postfix[1]

NameResult(st, name, raw, e) == [st |-> st, name |-> name, raw |-> raw, err |-> e]

\* Ok(make_ident(&test_name)) for the String s.
name_ident(s, id) == NameResult(id.st, s, id.raw, NoErr)

\* test_name once rel_path is known: rel is the Option strip_prefix returned.
\* unwrap of None, the slice bound on no component and file_stem's unwrap panic.
name_of_rel(arg, test_func_name, rel) ==
  IF rel = None \/ rel = Some(<<>>) THEN NameResult("panic", <<>>, FALSE, NoErr)
  ELSE IF file_stem(rel[1][Len(rel[1])]) = None
  THEN NameResult("panic", <<>>, FALSE, NoErr)
  ELSE name_ident(test_name_string(test_func_name, rel[1], arg.postfix),
                  make_ident(test_name_string(test_func_name, rel[1], arg.postfix)))

\* test_name after its resolve_dir call returned d.
name_in_dir(arg, test_func_name, fixture_path, d) ==
  IF d.st = "overflow" THEN NameResult("overflow", <<>>, FALSE, NoErr)
  ELSE IF d.st = "err" THEN NameResult("err", <<>>, FALSE, d.err)
  ELSE name_of_rel(arg, test_func_name, StripPrefix(fixture_path, d.path))

\* test_name: [st, name, raw, err]; st is "ok", "err" (resolve_dir failed),
\* "overflow", or "panic" (an unwrap, the slice bound or the identifier
\* constructor panics; `name` is then the String built so far).
test_name(arg, e, test_func_name, fixture_path) ==
  name_in_dir(arg, test_func_name, fixture_path, resolve_dir(arg, e))

\* build_test: the test registration emitted for one file.
build_test(arg, name, file_path) ==
  [name |-> name.name, raw |-> name.raw, path |-> file_path, loader |-> arg.loader]

\* keep_entry without the is_file test.
keep_entry_any_ok(item) == item.ok

\* The filter of build's loop: items the iterator failed on and entries that
\* are no regular file produce no test.
keep_entry(item) == item.ok /\ IsFile(item.path)

\* push_test dropping a test whose name is already taken.
push_test_dedup(tests, t) ==
  IF \E i \in DOMAIN tests : tests[i].name = t.name THEN tests ELSE Append(tests, t)

\* tests.push(...)
push_test(tests, t) == Append(tests, t)

\* ---------------------------------------------------------------- parser

Recognized == {"dir", "glob", "postfix", "loader"}

DefaultArg == [dir |-> None, glob |-> None, postfix |-> None, loader |-> None]

ParseOk(attr, visited) == [st |-> "ok", attr |-> attr, visited |-> visited, err |-> NoErr]
ParseErr(attr, visited, err) == [st |-> "err", attr |-> attr, visited |-> visited, err |-> err]

\* input.parse::<Token![:]>()? followed by the value parse: a string literal
\* for dir, glob and postfix, a path for loader.
ValueParses(entry) ==
  /\ entry.colon
  /\ IF entry.key = "loader" THEN entry.vkind = "Path" ELSE entry.vkind = "LitStr"

\* parse_arg without the visited_args check.
parse_arg_no_dup_check(attr, visited, entry) ==
  IF entry.key \notin Recognized
  THEN ParseErr(attr, visited, ArgErr("unknown_arg", entry.key))
  ELSE IF ~ValueParses(entry)
  THEN ParseErr(attr, visited, ArgErr("syntax", entry.key))
  ELSE ParseOk([attr EXCEPT ![entry.key] = Some(entry.val)], visited \cup {entry.key})

\* parse_arg accepting and ignoring a key it does not know.
parse_arg_skip_unknown(attr, visited, entry) ==
  IF entry.key \in visited
  THEN ParseErr(attr, visited, ArgErr("duplicated_arg", entry.key))
  ELSE IF entry.key \notin Recognized
  THEN ParseOk(attr, visited \cup {entry.key})
  ELSE IF ~ValueParses(entry)
  THEN ParseErr(attr, visited, ArgErr("syntax", entry.key))
  ELSE ParseOk([attr EXCEPT ![entry.key] = Some(entry.val)], visited \cup {entry.key})

\* One iteration of the while loop of DirTestArg::parse on the entry read.
parse_arg(attr, visited, entry) ==
  IF entry.key \in visited
  THEN ParseErr(attr, visited, ArgErr("duplicated_arg", entry.key))
  ELSE IF entry.key \notin Recognized
  THEN ParseErr(attr, visited, ArgErr("unknown_arg", entry.key))
  ELSE IF ~ValueParses(entry)
  THEN ParseErr(attr, visited, ArgErr("syntax", entry.key))
  ELSE ParseOk([attr EXCEPT ![entry.key] = Some(entry.val)], visited \cup {entry.key})

\* ---------------------------------------------------------------- inputs

Entry(key, vkind, val, colon, comma) ==
  [key |-> key, vkind |-> vkind, val |-> val, colon |-> colon, comma |-> comma]

\* The entries of the exhaustive parser inputs: the recognized keys, `dir`
\* with two values, an unknown key, a value of the wrong literal type and an
\* entry without its colon, each with and without a trailing comma.
ParseEntries ==
  { Entry(e[1], e[2], e[3], e[4], c) :
      e \in { <<"dir", "LitStr", <<"/","f","i","x">>, TRUE>>,
              <<"dir", "LitStr", <<"/","_","_","N","O","N","E","_","_">>, TRUE>>,
              <<"dir", "LitInt", <<"5">>, TRUE>>,
              <<"glob", "LitStr", <<"*",".","t","x","t">>, TRUE>>,
              <<"glob", "LitStr", <<"*",".","t","x","t">>, FALSE>>,
              <<"postfix", "LitStr", <<"c","u","s","t","o","m">>, TRUE>>,
              <<"loader", "Path", <<"r","e","a","d","_","t","o","_","s","t","r","i","n","g">>, TRUE>>,
              <<"foo", "LitStr", <<"c","u","s","t","o","m">>, TRUE>> },
      c \in BOOLEAN }

ParseInputs == UNION { [1..n -> ParseEntries] : n \in 0..MaxEntries }

\* The values of `dir`:  /fix  $R  $R/sub  ../foo/  /__NONE__  /file.txt  rel
\* relf  $U/x  /__NONE__/$R  $L  $N  /empty  /spc  /fix/$S  $M
DirValues ==
  { <<"/","f","i","x">>, <<"$","R">>, <<"$","R","/","s","u","b">>, <<".",".","/","f","o","o","/">>, <<"/","_","_","N","O","N","E","_","_">>, <<"/","f","i","l","e",".","t","x","t">>, <<"r","e","l">>,
    <<"r","e","l","f">>, <<"$","U","/","x">>, <<"/","_","_","N","O","N","E","_","_","/","$","R">>, <<"$","L">>, <<"$","N">>, <<"/","e","m","p","t","y">>,
    <<"/","s","p","c">>, <<"/","f","i","x","/","$","S">>, <<"$","M">> }
\* The values of `glob`:  *  **/*.txt  *.txt  ***  /spc/*
GlobValues == { <<"*">>, <<"*","*","/","*",".","t","x","t">>, <<"*",".","t","x","t">>, <<"*","*","*">>, <<"/","s","p","c","/","*">> }
\* The values of `postfix`:  custom  a-b
PostfixValues == { <<"c","u","s","t","o","m">>, <<"a","-","b">> }
LoaderValues == { <<"r","e","a","d","_","t","o","_","s","t","r","i","n","g">> }

Opt(S) == {None} \cup {Some(x) : x \in S}

OptEntry(key, vkind, v) ==
  IF v = None THEN <<>> ELSE <<Entry(key, vkind, v[1], TRUE, TRUE)>>

\* The well-formed configurations: each key at most once.
ConfigInputs ==
  { OptEntry("dir", "LitStr", d) \o OptEntry("glob", "LitStr", g)
      \o OptEntry("postfix", "LitStr", p) \o OptEntry("loader", "Path", l) :
      d \in Opt(DirValues), g \in Opt(GlobValues),
      p \in Opt(PostfixValues), l \in Opt(LoaderValues) }

\* The attributes of the annotated function: none, a well-formed
\* #[dir_test_attr(#[a])] after another attribute, a dir_test_attr with a
\* token left after its attributes.
Attr(is_dta, inner, trailing) ==
  [dir_test_attr |-> is_dta, inner |-> inner, trailing |-> trailing]

FuncAttrs ==
  { <<>>,
    <<Attr(FALSE, <<>>, FALSE), Attr(TRUE, <<"a">>, FALSE)>>,
    <<Attr(TRUE, <<"a">>, TRUE), Attr(TRUE, <<"b">>, FALSE)>> }

\* The name of the annotated function (func.sig.ident).
test_func == <<"t","e","s","t">>

\* ----------------------------------------------------------------- state

VARIABLES
  env,            \* the process environment
  func_attrs,     \* func.attrs
  input,          \* the entries of the attribute's token stream
  pos,            \* entries the parser has consumed
  dir_test_attr,  \* the DirTestArg under construction in parse
  visited_args,   \* parse's visited_args
  dir_test_arg,   \* TestBuilder.dir_test_arg: None until parse returns Ok
  test_attrs,     \* TestBuilder.test_attrs
  resolved,       \* resolve_dir's `resolved`, once substitution has succeeded
  pattern,        \* build's glob pattern
  paths,          \* the items of glob's iterator
  idx,            \* items build's loop has consumed
  tests,          \* build's `tests`
  name_buf,       \* the String of the last test_name call
  err,            \* the error returned, NoErr when none
  phase           \* parse, build, loop, done, failed, panicked, overflow

vars ==
  <<env, func_attrs, input, pos, dir_test_attr, visited_args, dir_test_arg,
    test_attrs, resolved, pattern, paths, idx, tests, name_buf, err, phase>>

Init ==
  /\ \/ input \in ParseInputs /\ env = Env1 /\ func_attrs = <<>>
     \/ input \in ConfigInputs /\ env \in Envs /\ func_attrs \in FuncAttrs
  /\ pos = 0
  /\ dir_test_attr = DefaultArg
  /\ visited_args = {}
  /\ dir_test_arg = None
  /\ test_attrs = <<>>
  /\ resolved = None
  /\ pattern = None
  /\ paths = <<>>
  /\ idx = 0
  /\ tests = <<>>
  /\ name_buf = <<>>
  /\ err = NoErr
  /\ phase = "parse"

\* ---------------------------------------------------------------- parse

\* One iteration of parse's loop: the entry is accepted, or parse returns Err
\* and dir_test expands to the compile error.
ParseArg ==
  /\ phase = "parse"
  /\ pos < Len(input)
  /\ \E r \in {parse_arg(dir_test_attr, visited_args, input[pos + 1])} :
        IF r.st = "ok"
        THEN /\ dir_test_attr' = r.attr
             /\ visited_args' = r.visited
             /\ pos' = pos + 1
             /\ UNCHANGED <<err, phase>>
        ELSE /\ err' = r.err
             /\ phase' = "failed"
             /\ UNCHANGED <<dir_test_attr, visited_args, pos>>
  /\ UNCHANGED <<env, func_attrs, input, dir_test_arg, test_attrs, resolved,
                 pattern, paths, idx, tests, name_buf>>

\* input.is_empty(): parse returns Ok(dir_test_attr) and TestBuilder::new
\* takes it.
ParseEnd ==
  /\ phase = "parse"
  /\ pos = Len(input)
  /\ dir_test_arg' = Some(dir_test_attr)
  /\ phase' = "build"
  /\ UNCHANGED <<env, func_attrs, input, pos, dir_test_attr, visited_args,
                 test_attrs, resolved, pattern, paths, idx, tests, name_buf, err>>

\* ---------------------------------------------------------------- build

RECURSIVE extract_loop(_, _)
\* extract_test_attrs: every dir_test_attr is removed from the function's
\* attributes and its inner attributes are appended to test_attrs; the first
\* one with a token left after its attributes makes the result an error.
extract_loop(attrs, acc) ==
  IF attrs = <<>> THEN acc
  ELSE LET a == Head(attrs)
       IN extract_loop(Tail(attrs),
            IF a.dir_test_attr
            THEN [ok |-> acc.ok /\ ~a.trailing, kept |-> acc.kept,
                  test_attrs |-> acc.test_attrs \o a.inner]
            ELSE [acc EXCEPT !.kept = Append(acc.kept, a)])

extract_test_attrs(attrs, cur) ==
  extract_loop(attrs, [ok |-> TRUE, kept |-> <<>>, test_attrs |-> cur])

\* The glob pattern of build: the resolved directory with the glob pushed.
glob_pattern(dir_path, arg) ==
  Push(dir_path, Components(IF arg.glob = None THEN <<"*">> ELSE arg.glob[1]))

\* build up to its loop: the attributes are extracted, the directory is
\* resolved and the glob pattern is expanded.
BuildBegin ==
  /\ phase = "build"
  /\ \E arg \in {dir_test_arg[1]}, x \in {extract_test_attrs(func_attrs, test_attrs)} :
     \E d \in {resolve_dir(arg, env)} :
     \E pat \in {glob_pattern(d.path, arg)} :
     \E g \in {glob(pat)} :
        /\ func_attrs' = x.kept
        /\ test_attrs' = x.test_attrs
        /\ IF ~x.ok
           THEN /\ err' = Err("attr_token")
                /\ phase' = "failed"
                /\ UNCHANGED <<resolved, pattern, paths>>
           ELSE IF d.st = "overflow"
           THEN /\ phase' = "overflow"
                /\ UNCHANGED <<err, resolved, pattern, paths>>
           ELSE IF d.st = "err"
           THEN /\ err' = d.err
                /\ phase' = "failed"
                /\ resolved' = IF d.err.kind \in {"not_absolute", "not_exist", "not_dir"}
                               THEN Some(d.path) ELSE None
                /\ UNCHANGED <<pattern, paths>>
           ELSE /\ resolved' = Some(d.path)
                /\ pattern' = Some(pat)
                /\ IF g.st = "err"
                   THEN /\ IF arg.glob = None
                           THEN phase' = "panicked" /\ UNCHANGED err
                           ELSE phase' = "failed" /\ err' = Err("glob_pattern")
                        /\ UNCHANGED paths
                   ELSE /\ paths' = g.items
                        /\ phase' = "loop"
                        /\ UNCHANGED err
  /\ UNCHANGED <<env, input, pos, dir_test_attr, visited_args, dir_test_arg,
                 idx, tests, name_buf>>

\* One iteration of build's loop over the glob items.
BuildEntry ==
  /\ phase = "loop"
  /\ idx < Len(paths)
  /\ idx' = idx + 1
  /\ \E item \in {paths[idx + 1]}, arg \in {dir_test_arg[1]} :
     \E n \in {test_name(arg, env, test_func, item.path)} :
        IF ~keep_entry(item)
        THEN UNCHANGED <<tests, name_buf, err, phase>>
        ELSE /\ name_buf' = n.name
             /\ IF n.st = "ok"
                THEN /\ tests' = push_test(tests, build_test(arg, n, item.path))
                     /\ UNCHANGED <<err, phase>>
                ELSE /\ phase' = IF n.st = "err" THEN "failed"
                                 ELSE IF n.st = "panic" THEN "panicked" ELSE "overflow"
                     /\ err' = n.err
                     /\ UNCHANGED tests
  /\ UNCHANGED <<env, func_attrs, input, pos, dir_test_attr, visited_args,
                 dir_test_arg, test_attrs, resolved, pattern, paths>>

\* The iterator is exhausted: build returns Ok with the tests.
BuildEnd ==
  /\ phase = "loop"
  /\ idx = Len(paths)
  /\ phase' = "done"
  /\ UNCHANGED <<env, func_attrs, input, pos, dir_test_attr, visited_args,
                 dir_test_arg, test_attrs, resolved, pattern, paths, idx,
                 tests, name_buf, err>>

Next == ParseArg \/ ParseEnd \/ BuildBegin \/ BuildEntry \/ BuildEnd

Spec == Init /\ [][Next]_vars

\* ------------------------------------------------------------ properties

\* parse returned Err.
ParseFailed ==
  phase = "failed" /\ err.kind \in {"duplicated_arg", "unknown_arg", "syntax"}

\* The number of entries whose key parse has read: the entries accepted and,
\* when parse failed, the entry it failed on.
KeysRead == IF ParseFailed THEN pos + 1 ELSE pos

\* Entry j repeats the key of an earlier entry.
Repeats(j) == \E i \in 1..(j - 1) : input[i].key = input[j].key

\* C1: whenever the parser reads the key of an entry and that recognized key
\* was already given by an earlier entry, parse fails at that entry with the
\* duplicated-arg error naming the key, whatever the two values, the keys in
\* between and the commas are; and an input holding a repeated recognized key
\* anywhere never yields a Config or a test.  (An entry that fails before the
\* repeated key is read ends parse with its own error.)
C1_DuplicateKeyRejected ==
  /\ \A j \in 1..KeysRead :
       (input[j].key \in Recognized /\ Repeats(j))
         => /\ phase = "failed"
            /\ err = ArgErr("duplicated_arg", input[j].key)
            /\ pos = j - 1
  /\ (\E j \in DOMAIN input : input[j].key \in Recognized /\ Repeats(j))
       => /\ dir_test_arg = None
          /\ tests = <<>>
          /\ phase \in {"parse", "failed"}

\* C1 witness: `dir` given twice with different values, another key in
\* between and no comma before the second `dir`.
C1_Witness ==
  /\ phase = "failed"
  /\ err = ArgErr("duplicated_arg", "dir")
  /\ pos = 2
  /\ input[1].key = "dir" /\ input[3].key = "dir"
  /\ input[2].key = "loader" /\ ~input[2].comma
  /\ input[1].val # input[3].val

\* C2: whenever the parser reads the key of an entry and the key is none of
\* dir, glob, postfix, loader, parse fails at that entry with the unknown-arg
\* error naming the key, whichever valid keys were accepted before it; and an
\* input holding an unknown key anywhere never yields a Config or a test.
C2_UnknownKeyRejected ==
  /\ \A j \in 1..KeysRead :
       input[j].key \notin Recognized
         => /\ phase = "failed"
            /\ err = ArgErr("unknown_arg", input[j].key)
            /\ pos = j - 1
  /\ (\E j \in DOMAIN input : input[j].key \notin Recognized)
       => /\ dir_test_arg = None
          /\ tests = <<>>
          /\ phase \in {"parse", "failed"}

\* C2 witness: an unknown key read after two valid keys were accepted.
C2_Witness ==
  /\ phase = "failed"
  /\ err = ArgErr("unknown_arg", "foo")
  /\ pos = 2
  /\ visited_args = {"dir", "glob"}

\* C3: build on a Config without `dir` returns the `dir` is required error
\* and emits no test (a malformed dir_test_attr block, which build extracts
\* first, fails with its own error instead); and a directory is resolved only
\* for a Config that has `dir`.
C3_MissingDirRejected ==
  /\ [][(phase = "build" /\ dir_test_arg[1].dir = None)
          => /\ phase' = "failed"
             /\ tests' = <<>>
             /\ paths' = <<>>
             /\ err' = IF extract_test_attrs(func_attrs, test_attrs).ok
                       THEN Err("dir_required") ELSE Err("attr_token")]_vars
  /\ []((dir_test_arg # None /\ dir_test_arg[1].dir = None)
          => (resolved = None /\ tests = <<>> /\ phase \in {"build", "failed"}))

\* C3 witness: a configuration with only glob and postfix has failed with
\* `dir` is required.
C3_Witness ==
  /\ phase = "failed"
  /\ err = Err("dir_required")
  /\ dir_test_arg # None
  /\ dir_test_arg[1].dir = None
  /\ dir_test_arg[1].glob # None
  /\ dir_test_arg[1].postfix # None

DirErrors == {"not_absolute", "not_exist", "not_dir"}

\* C4 (as claimed): the substituted path is checked for existence, then for
\* being a directory, then for being absolute, and the first check violated in
\* that order gives the error.
C4_ExistenceCheckedFirst ==
  resolved # None =>
    LET p == resolved[1]
    IN IF ~Exists(p) THEN phase = "failed" /\ err = PathErr("not_exist", p)
       ELSE IF ~IsDir(p) THEN phase = "failed" /\ err = PathErr("not_dir", p)
       ELSE IF ~IsAbsolute(p) THEN phase = "failed" /\ err = PathErr("not_absolute", p)
       ELSE err.kind \notin DirErrors /\ pattern # None

\* C4 (amended): the substituted path is checked for being absolute, then for
\* existence, then for being a directory; the first check violated in that
\* order gives the error, and resolve_dir succeeds only when all three hold.
C4_AbsoluteCheckedFirst ==
  /\ resolved # None =>
       LET p == resolved[1]
       IN IF ~IsAbsolute(p) THEN phase = "failed" /\ err = PathErr("not_absolute", p)
          ELSE IF ~Exists(p) THEN phase = "failed" /\ err = PathErr("not_exist", p)
          ELSE IF ~IsDir(p) THEN phase = "failed" /\ err = PathErr("not_dir", p)
          ELSE err.kind \notin DirErrors /\ pattern # None
  /\ err.kind \in DirErrors => resolved # None
  /\ pattern # None =>
       /\ resolved # None
       /\ IsAbsolute(resolved[1]) /\ Exists(resolved[1]) /\ IsDir(resolved[1])

\* C4 witness: a path that is relative and does not exist has been reported
\* as not absolute.
C4_Witness ==
  /\ resolved # None
  /\ ~IsAbsolute(resolved[1])
  /\ ~Exists(resolved[1])
  /\ phase = "failed"
  /\ err.kind = "not_absolute"

\* The glob items that are readable regular files, by position in `paths`.
RegularItems == {k \in DOMAIN paths : paths[k].ok /\ IsFile(paths[k].path)}

\* C5: when build returns Ok, the tests are as many as the glob items that are
\* regular files, and each such file has exactly one test; items that are
\* directories, other entries or read errors have none, and no Err is
\* returned once the pattern has been expanded, whatever the items are (none
\* included).
C5_OneTestPerRegularFile ==
  /\ phase = "done" =>
       /\ Len(tests) = Cardinality(RegularItems)
       /\ \A k \in DOMAIN paths :
            Cardinality({t \in DOMAIN tests : tests[t].path = paths[k].path})
              = IF k \in RegularItems THEN 1 ELSE 0
  /\ (phase = "failed" /\ pattern # None) => (err = Err("glob_pattern") /\ paths = <<>>)
  /\ (phase = "loop" /\ paths = <<>>) => (tests = <<>> /\ idx = 0)

\* C5 witness: build returned Ok over items holding a directory, a
\* non-regular entry and a read error besides regular files.
C5_Witness ==
  /\ phase = "done"
  /\ Len(tests) >= 2
  /\ \E k \in DOMAIN paths : ~paths[k].ok
  /\ \E k \in DOMAIN paths : paths[k].ok /\ IsDir(paths[k].path)
  /\ \E k \in DOMAIN paths :
        paths[k].ok /\ ~IsDir(paths[k].path) /\ ~IsFile(paths[k].path)

NameChars == Letters \cup Digits \cup {"_"}

\* C6 (as claimed): no ASCII punctuation character other than `_` occurs
\* anywhere in the name test_name synthesizes, the part contributed by the
\* postfix included.
C6_NameHasNoPunctuation ==
  \A i \in DOMAIN name_buf : name_buf[i] \notin (AsciiPunctuation \ {"_"})

\* The length of the `_<postfix>` suffix of the names of the configuration.
PostfixLen ==
  IF dir_test_arg = None \/ dir_test_arg[1].postfix = None THEN 0
  ELSE 1 + Len(dir_test_arg[1].postfix[1])

\* C6 (amended): the name test_name builds is the function name, `__`, a part
\* derived from the relative path in which no ASCII punctuation other than `_`
\* occurs, and `_<postfix>` with the postfix copied verbatim; the postfix is
\* not sanitized.  Every name of an emitted test consists of letters, digits
\* and underscores only.
C6_PathPartHasNoPunctuation ==
  /\ name_buf # <<>> =>
       LET n == Len(name_buf)
           start == Len(test_func) + 2
       IN /\ n >= start + 1 + PostfixLen
          /\ SubSeq(name_buf, 1, start) = test_func \o <<"_", "_">>
          /\ \A i \in (start + 1)..(n - PostfixLen) :
               name_buf[i] \notin (AsciiPunctuation \ {"_"})
          /\ PostfixLen > 0 =>
               SubSeq(name_buf, n - PostfixLen + 1, n)
                 = <<"_">> \o dir_test_arg[1].postfix[1]
  /\ \A t \in DOMAIN tests : \A i \in DOMAIN tests[t].name :
       tests[t].name[i] \in NameChars

\* C6 witness: a test has been emitted for a file whose name holds
\* punctuation, under a configuration with a postfix.
C6_Witness ==
  /\ idx > 0
  /\ dir_test_arg[1].postfix # None
  /\ \E i \in DOMAIN paths[idx].path[Len(paths[idx].path)] :
        paths[idx].path[Len(paths[idx].path)][i] = "-"
  /\ tests # <<>>
  /\ tests[Len(tests)].path = paths[idx].path
  /\ tests[Len(tests)].name = name_buf

RECURSIVE C7_Join(_)
\* sanitize(s1) _ ... _ sanitize(s(n-1)) _ sanitize(stem(sn))
C7_Join(rel) ==
  IF Len(rel) = 1 THEN sanitize(file_stem(rel[1])[1])
  ELSE sanitize(Head(rel)) \o <<"_">> \o C7_Join(Tail(rel))

\* C7 (as claimed): the name of the test generated for a file is the sanitized
\* segments of its relative path joined by `_`, the last without its
\* extension, followed by `_<postfix>` exactly when a postfix is configured.
C7_NameIsSanitizedRelativePath ==
  \A t \in DOMAIN tests :
    tests[t].name =
      C7_Join(StripPrefix(tests[t].path, resolved[1])[1])
        \o (IF dir_test_arg[1].postfix = None THEN <<>>
            ELSE <<"_">> \o dir_test_arg[1].postfix[1])

RECURSIVE C8_Concat(_, _)
\* The segments of path in order, each `$NAME` segment replaced by the
\* segments its value resolves to.
C8_Concat(e, path) ==
  IF path = <<>> THEN <<>>
  ELSE (IF Head(path)[1] = "$"
        THEN C8_Concat(e, Components(e[Tail(Head(path))]))
        ELSE <<Head(path)>>) \o C8_Concat(e, Tail(path))

\* C8 (as claimed): the path resolve_path returns is the concatenation, in
\* order, of the resolutions of the segments of `dir`; no segment before a
\* `$NAME` segment is dropped.
C8_ResolvedIsConcatenation ==
  resolved # None =>
    resolved[1] = C8_Concat(env, Components(dir_test_arg[1].dir[1]))

\* C9: names are not checked for collisions.  Once the loop runs no error is
\* returned; a panic comes from an unwrap before the name is built or from the
\* identifier constructor on a string that is no identifier, never from a name
\* already taken; and the tests are, in order, one per regular file consumed,
\* each under the name synthesized for its path, also when that name is the
\* name of an earlier test.
C9_CollisionsAreKept ==
  /\ phase = "failed" => (tests = <<>> /\ idx = 0)
  /\ (phase = "panicked" /\ idx > 0) => (name_buf = <<>> \/ ~ValidIdent(name_buf))
  /\ phase \in {"loop", "done"} =>
       LET Kept(item) == item.ok /\ IsFile(item.path)
           kept == SelectSeq(SubSeq(paths, 1, idx), Kept)
       IN /\ Len(tests) = Len(kept)
          /\ \A k \in DOMAIN tests :
               /\ tests[k].path = kept[k].path
               /\ tests[k].name =
                    test_name_string(test_func,
                       StripPrefix(kept[k].path, resolved[1])[1],
                       dir_test_arg[1].postfix)
  /\ phase = "done" => idx = Len(paths)

\* C9 witness: build returned Ok with two tests of the same name for two
\* different files.
C9_Witness ==
  /\ phase = "done"
  /\ \E i, j \in DOMAIN tests :
       /\ i < j
       /\ tests[i].name = tests[j].name
       /\ tests[i].path # tests[j].path

\* C10 (as claimed): once build has called resolve_dir, the call has ended
\* with a resolved path or with an error.
C10_ResolveDirReturns ==
  phase \notin {"parse", "build"} => (resolved # None \/ err.kind # "none")

====
